---- MODULE Spec2Model ----
(***************************************************************************)
(* Model of escaped-delimiter (src/src/lib.rs): Iter, a double-ended       *)
(* iterator over the words of a byte slice separated by a delimiter byte   *)
(* that an escape byte can suppress.                                       *)
(*                                                                         *)
(* A slice &[u8] of the buffer is a record [off, len]: off is the          *)
(* distance of its first byte from the start of the buffer.  The finder    *)
(* functions work on the bytes of a slice (a sequence, 0-based index i is  *)
(* element i + 1).  Option<NonZeroUsize> is the integer itself, None       *)
(* being 0, as the niche layout of the type has it.                        *)
(***************************************************************************)
EXTENDS Integers, Sequences, FiniteSets

\* Longest buffer explored.
MaxLen == 6
\* Byte values are 0 .. MaxByte: the code compares a byte only with delim,
\* with escape and with the initial prev_char 0.
MaxByte == 2

Byte == 0 .. MaxByte

VARIABLES
    buf,        \* the caller's buffer, never written
    delim,      \* Iter.delim
    escape,     \* Iter.escape
    inner,      \* Iter.inner, the remaining slice
    ret,        \* the last call and what it returned
    fwd,        \* the words returned by next, in call order
    back,       \* the words returned by next_back, in call order
    exhausted   \* the first pull that returned None ("" while none has)

vars == <<buf, delim, escape, inner, ret, fwd, back, exhausted>>

None == 0

EmptySlice == [off |-> 0, len |-> 0]

\* The bytes of a slice of the buffer.
Content(v) == SubSeq(buf, v.off + 1, v.off + v.len)

\* &v[pos..] and &v[..pos]; both panic when pos > v.len.
SliceFrom(v, pos) == [off |-> v.off + pos, len |-> v.len - pos]
SliceTo(v, pos) == [off |-> v.off, len |-> pos]

iso_parity(i, j) == (i % 2) = (j % 2)

----------------------------------------------------------------------------
\* Forward finders.

RECURSIVE skip_while_delim(_, _, _)
skip_while_delim(s, d, i) ==
    IF i < Len(s) /\ s[i + 1] = d THEN skip_while_delim(s, d, i + 1) ELSE i

\* find_bow that skips no leading delimiter.
find_bow_noskip(s, d) == 0

find_bow(s, d) ==
    LET i == skip_while_delim(s, d, 0)
    IN  IF i < Len(s) THEN i ELSE Len(s)

RECURSIVE find_eow_loop(_, _, _, _, _)
find_eow_loop(s, d, e, i, prev_char) ==
    IF i >= Len(s) THEN Len(s)
    ELSE LET c == s[i + 1]
         IN  IF c = d /\ prev_char # e THEN i
             ELSE find_eow_loop(s, d, e, i + 1,
                                IF c = e /\ prev_char = e THEN 0 ELSE c)

\* The loop returns index 0 (NonZeroUsize::new_unchecked(0)) only when the
\* first byte is the delimiter; next calls find_bow first, so it never is.
find_eow(s, d, e) ==
    IF Len(s) = 0 THEN None ELSE find_eow_loop(s, d, e, 0, 0)

----------------------------------------------------------------------------
\* Backward finders.

\* renumerate().skip_while(c == delim) from index k down: the index of the
\* first byte that is not the delimiter, -1 when the iterator runs out.
RECURSIVE rskip_while_delim(_, _, _)
rskip_while_delim(s, d, k) ==
    IF k >= 0 /\ s[k + 1] = d THEN rskip_while_delim(s, d, k - 1) ELSE k

\* it.filter(c == escape).last() over the indices k, k - 1, .. 0: the last
\* escape byte the reversed iterator yields, -1 when it yields none.
RECURSIVE filter_last(_, _, _, _)
filter_last(s, e, k, acc) ==
    IF k < 0 THEN acc
    ELSE filter_last(s, e, k - 1, IF s[k + 1] = e THEN k ELSE acc)

\* rfind_eow whose skip_while also skips trailing escape bytes.
RECURSIVE rskip_while_delim_or_escape(_, _, _, _)
rskip_while_delim_or_escape(s, d, e, k) ==
    IF k >= 0 /\ s[k + 1] \in {d, e}
    THEN rskip_while_delim_or_escape(s, d, e, k - 1) ELSE k

rfind_eow_skipesc(s, d, e) ==
    LET i == rskip_while_delim_or_escape(s, d, e, Len(s) - 1)
    IN  IF i < 0 THEN None ELSE i + 1

rfind_eow(s, d, e) ==
    LET i == rskip_while_delim(s, d, Len(s) - 1)
    IN  IF i < 0 THEN None
        ELSE IF s[i + 1] = e
             THEN LET j == filter_last(s, e, i - 1, -1)
                  IN  IF j >= 0 /\ ~iso_parity(i, j) THEN i + 1 ELSE i + 2
             ELSE i + 1

RECURSIVE rfind_bow_loop(_, _, _, _, _, _)
rfind_bow_loop(s, d, e, i, dl, delim_found) ==
    IF i < 0 THEN [delim |-> dl, delim_found |-> delim_found, broken |-> FALSE]
    ELSE LET c == s[i + 1]
         IN  IF delim_found /\ c # e
             THEN IF iso_parity(i, dl)
                  THEN rfind_bow_loop(s, d, e, i - 1,
                                      IF c = d THEN i ELSE dl, c = d)
                  ELSE [delim |-> dl, delim_found |-> TRUE, broken |-> TRUE]
             ELSE rfind_bow_loop(s, d, e, i - 1,
                                 IF c = d THEN i ELSE dl,
                                 delim_found \/ c = d)

rfind_bow(s, d, e) ==
    LET r == rfind_bow_loop(s, d, e, Len(s) - 1, 0, FALSE)
    IN  IF r.delim_found /\ (r.broken \/ iso_parity(r.delim, 0))
        THEN r.delim + 1
        ELSE 0

----------------------------------------------------------------------------
\* The two pulls, as functions of the remaining slice v: the new remaining
\* slice and the outcome ("some" with the word, "none", or "panic" when a
\* slice index is out of range, which leaves the slice as it was).

Outcome(v, kind, word) == [inner |-> v, kind |-> kind, word |-> word]

\* next that drops the separator after the word it returns.
next_skipsep(v) ==
    LET pos == find_bow(Content(v), delim)
        v1 == SliceFrom(v, pos)
        eow == find_eow(Content(v1), delim, escape)
    IN  IF eow = None THEN Outcome(v1, "none", EmptySlice)
        ELSE Outcome(SliceFrom(v1, IF eow < v1.len THEN eow + 1 ELSE eow),
                     "some", SliceTo(v1, eow))

next(v) ==
    LET pos == find_bow(Content(v), delim)
    IN  IF pos > v.len THEN Outcome(v, "panic", EmptySlice)
        ELSE LET v1 == SliceFrom(v, pos)
                 eow == find_eow(Content(v1), delim, escape)
             IN  IF eow = None THEN Outcome(v1, "none", EmptySlice)
                 ELSE IF eow > v1.len THEN Outcome(v1, "panic", EmptySlice)
                 ELSE Outcome(SliceFrom(v1, eow), "some", SliceTo(v1, eow))

next_back(v) ==
    LET eow == rfind_eow(Content(v), delim, escape)
    IN  IF eow = None THEN Outcome(v, "none", EmptySlice)
        ELSE IF eow > v.len THEN Outcome(v, "panic", EmptySlice)
        ELSE LET v1 == SliceTo(v, eow)
                 pos == rfind_bow(Content(v1), delim, escape)
             IN  IF pos > v1.len THEN Outcome(v1, "panic", EmptySlice)
                 ELSE Outcome(SliceTo(v1, pos), "some", SliceFrom(v1, pos))

as_slice(v) == v

----------------------------------------------------------------------------
\* The buffers explored: every byte sequence of length 0 .. MaxLen.

Buffers == UNION {[1 .. n -> Byte] : n \in 0 .. MaxLen}

\* The delimiter and escape bytes explored.  The code compares bytes for
\* equality only and its one byte literal is the 0 that find_eow starts
\* prev_char with, so every pair of distinct bytes behaves as one of these
\* three does: neither byte is 0, the escape byte is 0, the delimiter is 0.
Configs == {<<1, 2>>, <<1, 0>>, <<0, 1>>}

\* Iter::from_slice on any buffer, with two distinct bytes.
Init ==
    /\ buf \in Buffers
    /\ \E c \in Configs : delim = c[1] /\ escape = c[2]
    /\ inner = [off |-> 0, len |-> Len(buf)]
    /\ ret = [op |-> "from_slice", kind |-> "iter", word |-> EmptySlice]
    /\ fwd = <<>>
    /\ back = <<>>
    /\ exhausted = ""

\* A panic ends the run.  A caller pulls at most Len(buf) + 1 words.
CanCall == ret.kind # "panic" /\ Len(fwd) + Len(back) <= Len(buf)

Pull(op, r) ==
    /\ inner' = r.inner
    /\ ret' = [op |-> op, kind |-> r.kind, word |-> r.word]
    /\ exhausted' = IF exhausted = "" /\ r.kind = "none" THEN op ELSE exhausted
    /\ UNCHANGED <<buf, delim, escape>>

Next_ ==
    /\ CanCall
    /\ \E r \in {next(inner)} :
        /\ Pull("next", r)
        /\ fwd' = IF r.kind = "some" THEN Append(fwd, r.word) ELSE fwd
    /\ back' = back

NextBack ==
    /\ CanCall
    /\ \E r \in {next_back(inner)} :
        /\ Pull("next_back", r)
        /\ back' = IF r.kind = "some" THEN Append(back, r.word) ELSE back
    /\ fwd' = fwd

AsSlice ==
    /\ CanCall
    /\ ret' = [op |-> "as_slice", kind |-> "slice", word |-> as_slice(inner)]
    /\ UNCHANGED <<buf, delim, escape, inner, fwd, back, exhausted>>

Next == Next_ \/ NextBack \/ AsSlice

Spec == Init /\ [][Next]_vars

----------------------------------------------------------------------------
\* Vocabulary of the properties.

Whole == [off |-> 0, len |-> Len(buf)]
End(v) == v.off + v.len
Reverse(ws) == [k \in 1 .. Len(ws) |-> ws[Len(ws) + 1 - k]]
Contents(ws) == [k \in 1 .. Len(ws) |-> Content(ws[k])]
IsPull(r) == r.op \in {"next", "next_back"}

\* iter(s, delim, escape).collect(): next until it returns no word.
RECURSIVE collect(_)
collect(v) ==
    LET r == next(v)
    IN  IF r.kind = "some" THEN <<r.word>> \o collect(r.inner) ELSE <<>>

\* A run of next alone, or of next_back alone, that has reached None.
ForwardDone == back = <<>> /\ ret.op = "next" /\ ret.kind = "none"
BackwardDone == fwd = <<>> /\ ret.op = "next_back" /\ ret.kind = "none"

\* The length of the maximal run of byte e that ends right before index i.
RECURSIVE RunBefore(_, _, _)
RunBefore(s, e, i) ==
    IF i > 0 /\ s[i] = e THEN 1 + RunBefore(s, e, i - 1) ELSE 0

\* The non-empty pieces between the separator indices seps, left to right.
Pieces(s, seps) ==
    {w \in [off : 0 .. Len(s), len : 1 .. Len(s)] :
        /\ End(w) <= Len(s)
        /\ \A i \in w.off .. End(w) - 1 : i \notin seps
        /\ w.off = 0 \/ (w.off - 1) \in seps
        /\ End(w) = Len(s) \/ End(w) \in seps}

RECURSIVE InOrder(_)
InOrder(S) ==
    IF S = {} THEN <<>>
    ELSE LET w == CHOOSE x \in S : \A y \in S : x.off <= y.off
         IN  <<w>> \o InOrder(S \ {w})

Delims(s, d) == {i \in 0 .. Len(s) - 1 : s[i + 1] = d}
NaiveSplit(s, d) == InOrder(Pieces(s, Delims(s, d)))
EscapeSplit(s, d, e) ==
    InOrder(Pieces(s, {i \in Delims(s, d) : RunBefore(s, e, i) % 2 = 0}))

InBuf(v) == 0 <= v.off /\ 0 <= v.len /\ End(v) <= Len(buf)
Within(w, v) == v.off <= w.off /\ w.off <= End(w) /\ End(w) <= End(v)
Overlap(a, b) ==
    \E i \in 0 .. Len(buf) - 1 :
        /\ a.off <= i /\ i < End(a)
        /\ b.off <= i /\ i < End(b)
NoOverlap(ws) ==
    \A k, l \in 1 .. Len(ws) : k # l => ~Overlap(ws[k], ws[l])

\* rfind_bow by explicit counting: just after the last delimiter that an
\* even run of escape bytes precedes.
rfind_bow_counting(s, d, e) ==
    LET U == {i \in Delims(s, d) : RunBefore(s, e, i) % 2 = 0}
    IN  IF U = {} THEN 0
        ELSE (CHOOSE i \in U : \A k \in U : k <= i) + 1

\* The parity decision of rfind_eow on the bytes s, when it takes one: the
\* last non-delimiter byte, at i, is the escape byte and an earlier escape
\* byte j exists.  By explicit counting the run that ends at i is even.
EowDecides(s, d, e) ==
    LET i == rskip_while_delim(s, d, Len(s) - 1)
    IN  i >= 0 /\ s[i + 1] = e /\ filter_last(s, e, i - 1, -1) >= 0
EowParityAgrees(s, d, e) ==
    LET i == rskip_while_delim(s, d, Len(s) - 1)
        j == filter_last(s, e, i - 1, -1)
    IN  (~iso_parity(i, j)) <=> (RunBefore(s, e, i + 1) % 2 = 0)

----------------------------------------------------------------------------
\* C1 -- Reversal symmetry: the words of a run of next_back alone, reversed,
\* are the words of a run of next alone over the same buffer.
C1_ReversalSymmetry ==
    BackwardDone => Contents(Reverse(back)) = Contents(collect(Whole))

\* C2 -- Interleaving consistency: when a pull returns None, the words next
\* returned followed by the words next_back returned in reverse call order
\* are the words, at the same boundaries, of a run of next alone.
C2_InterleavingConsistency ==
    (IsPull(ret) /\ ret.kind = "none") =>
        fwd \o Reverse(back) = collect(Whole)

\* C3 -- Strict shrinking: a pull that returns a word leaves a remaining
\* slice strictly shorter than before, so at most Len(buf) pulls succeed.
C3_StrictShrinking ==
    [][/\ ret'.kind = "some" => inner'.len < inner.len
       /\ Len(fwd') + Len(back') <= Len(buf)]_vars

\* C4 -- No fallible path: no pull slices the remaining view out of range,
\* so no pull panics.
C4_NoFalliblePath == ret.kind # "panic"

\* C5 -- Idempotent exhaustion: once a pull has returned None, every later
\* pull from either end returns None.
C5_IdempotentExhaustion ==
    (exhausted # "" /\ IsPull(ret)) => ret.kind = "none"

\* A next that returns None after next_back was the first to return None,
\* words having been returned from both ends before.
C5_Witness ==
    /\ exhausted = "next_back" /\ ret.op = "next" /\ ret.kind = "none"
    /\ fwd # <<>> /\ back # <<>>

\* C6 -- Forward escape semantics: next alone splits the buffer exactly at
\* the delimiters that an even-length maximal run of escape bytes precedes,
\* for every delimiter and escape byte, the escape byte 0 included.
C6_ForwardEscapeSemantics ==
    ForwardDone => fwd = EscapeSplit(buf, delim, escape)

\* C7 -- No empty words: every word returned has length at least 1, and a
\* buffer of delimiter bytes only (or empty) yields None on every pull.
C7_NoEmptyWords ==
    /\ \A k \in 1 .. Len(fwd) : fwd[k].len >= 1
    /\ \A k \in 1 .. Len(back) : back[k].len >= 1
    /\ (IsPull(ret) /\ Delims(buf, delim) = 0 .. Len(buf) - 1) =>
            ret.kind = "none"

\* C8 -- Cursor invariant: the remaining view stays a sub-range of the
\* buffer; a successful next returns a sub-range of the old view and leaves
\* what follows the word; a successful next_back returns a sub-range and
\* leaves what precedes the word; the words returned never overlap; as_slice
\* returns the view and leaves it alone.
C8_CursorInvariant ==
    [][/\ InBuf(inner')
       /\ (ret'.op = "next" /\ ret'.kind = "some") =>
            /\ Within(ret'.word, inner)
            /\ inner'.off = End(ret'.word)
            /\ End(inner') = End(inner)
       /\ (ret'.op = "next_back" /\ ret'.kind = "some") =>
            /\ Within(ret'.word, inner)
            /\ inner'.off = inner.off
            /\ End(inner') = ret'.word.off
       /\ ret'.op = "as_slice" => ret'.word = inner /\ inner' = inner
       /\ NoOverlap(fwd' \o back')]_vars

\* as_slice on a view that both ends have shortened and that is not empty.
C8_Witness ==
    /\ ret.op = "as_slice" /\ ret.word = inner
    /\ fwd # <<>> /\ back # <<>> /\ inner.len > 0

\* C9 -- No-escape equivalence: on a buffer without escape bytes, next
\* alone returns the non-empty pieces of a split on every delimiter byte.
C9_NoEscapeEquivalence ==
    (ForwardDone /\ \A i \in 1 .. Len(buf) : buf[i] # escape) =>
        fwd = NaiveSplit(buf, delim)

\* A run of next alone over a buffer without escape bytes that has leading,
\* consecutive and trailing delimiters, and two words.
C9_Witness ==
    /\ ForwardDone /\ \A i \in 1 .. Len(buf) : buf[i] # escape
    /\ Len(fwd) = 2 /\ fwd[1].off > 0 /\ fwd[2].off > End(fwd[1]) + 1
    /\ End(fwd[2]) < Len(buf)

\* C10 -- The parity primitive agrees with explicit counting: whenever
\* next_back runs, the parity decision of rfind_eow and the result of
\* rfind_bow are those that counting the run of escape bytes gives.
C10_ParityAgreesWithCounting ==
    [][ret'.op = "next_back" =>
        /\ EowDecides(Content(inner), delim, escape) =>
                EowParityAgrees(Content(inner), delim, escape)
        /\ ret'.kind = "some" =>
                ret'.word.off - inner.off =
                    rfind_bow_counting(
                        SubSeq(buf, inner.off + 1, End(ret'.word)),
                        delim, escape)]_vars

====
